---------------------------- MODULE Spec2Model ----------------------------
(***************************************************************************)
(* TiktokChef backend: the recipe-extraction workflow (src/src/graph.py,   *)
(* src/src/agent.py, src/src/tools.py), the persistence gateway            *)
(* (src/src/crud.py) and the HTTP handlers that combine them (src/main.py).*)
(*                                                                         *)
(* Two state machines share this module.                                   *)
(*   SpecWF / FairSpecWF : one run of the compiled workflow graph, one     *)
(*                         node per step.                                  *)
(*   Spec               : the request handlers of main.py running against  *)
(*                         the shared store, one store call per step, so   *)
(*                         that requests interleave between store calls.   *)
(***************************************************************************)
EXTENDS Integers, Sequences, FiniteSets, TLC

VARIABLES
    wf,             \* the workflow run: graph position, AgentState, bookkeeping
    recipes,        \* table "recipes": rows in insertion order
    ingredients,    \* table "ingredients": rows in insertion order
    instructions,   \* table "instructions": rows in insertion order
    nextRecipeId,   \* next primary key the store hands out for "recipes"
    req,            \* per request task: the handler's position, locals, response
    inferenceCalls  \* per video URL: how often the Gemini call was made

vars == <<wf, recipes, ingredients, instructions, nextRecipeId, req, inferenceCalls>>

storeVars == <<recipes, ingredients, instructions, nextRecipeId>>
apiVars == <<recipes, ingredients, instructions, nextRecipeId, req, inferenceCalls>>

-----------------------------------------------------------------------------
(* Python's None: for optional strings, for an optional Recipe, for an     *)
(* optional URL, for an optional database row, for an optional integer id  *)
(* (primary keys start at 1).                                              *)
None == "None"
NoRecipe == [absent |-> TRUE]
NoUrl == [absent |-> TRUE]
NoRow == [absent |-> TRUE]
NoId == 0

(* schema.py STATUS *)
PENDING == "pending"
RUNNING == "running"
FAILED  == "failed"
SUCCESS == "success"
STATUS == {PENDING, RUNNING, FAILED, SUCCESS}

(* schema.py: max_retries = Field(default=2, ge=0, le=5) *)
MaxRetriesLimit == 5
DefaultMaxRetries == 2

-----------------------------------------------------------------------------
(* Video URLs.  A URL is its host plus its path segments; a segment that   *)
(* is written "@name" has at = TRUE.  hostLower = FALSE stands for a host  *)
(* the caller wrote with capital letters.                                  *)
Seg(at, name) == [at |-> at, name |-> name]

UrlA == [host |-> "example.com", hostLower |-> TRUE,
         segs |-> <<Seg(FALSE, "a")>>]
UrlAUpper == [host |-> "example.com", hostLower |-> FALSE,
         segs |-> <<Seg(FALSE, "a")>>]
UrlT == [host |-> "www.tiktok.com", hostLower |-> TRUE,
         segs |-> <<Seg(TRUE, "user"), Seg(FALSE, "video"), Seg(FALSE, "1")>>]

(* UrlA with a trailing slash, with a query parameter, on another host *)
UrlASlash == [host |-> "example.com", hostLower |-> TRUE,
              segs |-> <<Seg(FALSE, "a"), Seg(FALSE, "")>>]
UrlAQuery == [host |-> "example.com", hostLower |-> TRUE,
              segs |-> <<Seg(FALSE, "a?utm=1")>>]
UrlAHost == [host |-> "www.example.com", hostLower |-> TRUE,
             segs |-> <<Seg(FALSE, "a")>>]

(* str(request.video_url): pydantic's HttpUrl gives the host in lower case *)
HttpUrlStr(u) == [u EXCEPT !.hostLower = TRUE]

(* utils.py extract_tiktok_username: re.search(r'/@([a-zA-Z0-9._]+)', url) *)
(* returns the name of the first "/@name" segment with a non-empty name.   *)
AtSegments(u) == {i \in 1..Len(u.segs) : u.segs[i].at /\ u.segs[i].name # ""}
extract_tiktok_username(u) ==
    IF AtSegments(u) = {} THEN None
    ELSE u.segs[CHOOSE i \in AtSegments(u) : \A j \in AtSegments(u) : i <= j].name

-----------------------------------------------------------------------------
(* Recipes (schema.py Recipe, RecipeOverview, Ingredient).  An amount is a *)
(* display string, kept as its characters.                                 *)
Overview(title, servings, difficulty, cuisine) ==
    [title |-> title, prep_time |-> None, cook_time |-> None,
     servings |-> servings, difficulty |-> difficulty, cuisine_type |-> cuisine]

Ing(item, amount, unit) ==
    [item |-> item, amount |-> amount, unit |-> unit, notes |-> None]

MkRecipe(ov, ings, instrs) ==
    [recipe_overview |-> ov, ingredients |-> ings, instructions |-> instrs]

RecipePasta ==
    MkRecipe(Overview("Pasta", 4, "Easy", "Italian"),
             <<Ing("Pasta", <<"2", "0", "0">>, "grams"),
               Ing("Salt", <<"a", " ", "p", "i", "n", "c", "h">>, None)>>,
             <<"Boil water", "Cook pasta">>)

RecipeRice ==
    MkRecipe(Overview("Rice", 2, None, None),
             <<Ing("Rice", <<"1">>, "cup"),
               Ing("Soy sauce", <<"1", "/", "2">>, "tbsp")>>,
             <<"Cook rice", "Add soy sauce", "Serve hot">>)

(* Passes Recipe.model_validate (title: str, servings: int carry no       *)
(* constraint) but has an empty title and no servings.                     *)
RecipeBlank ==
    MkRecipe(Overview("", 0, None, None), <<>>, <<>>)

Difficulties == {"Easy", "Intermediate", "Advanced"}


-----------------------------------------------------------------------------
(* What the world hands to one call of transcribe_recipe: how the video    *)
(* download ends, and what the Gemini call returns.                        *)
(*   download : "ok" | "nonzero" | "missing" | "timeout"                   *)
(*   api      : "ok" | "error"      (generate_content returns or raises)   *)
(*   text     : "empty" | "garbage" | "json"       (response.text)         *)
(*   data     : the decoded JSON document when text = "json"               *)
Outcome(download, api, text, data) ==
    [download |-> download, api |-> api, text |-> text, data |-> data]

PayloadNoTitle ==
    MkRecipe(Overview(None, 2, None, None), <<Ing("Rice", <<"1">>, "cup")>>,
             <<"Cook rice">>)
PayloadBadDifficulty ==
    MkRecipe(Overview("Rice", 2, "Hard", None), <<Ing("Rice", <<"1">>, "cup")>>,
             <<"Cook rice">>)

GoodPayloads == {RecipePasta, RecipeRice, RecipeBlank}
BadPayloads == {PayloadNoTitle, PayloadBadDifficulty}

Outcomes ==
    {Outcome(d, "ok", "empty", NoRecipe) : d \in {"nonzero", "missing", "timeout"}}
    \cup {Outcome("ok", "error", "empty", NoRecipe)}
    \cup {Outcome("ok", "ok", t, NoRecipe) : t \in {"empty", "garbage"}}
    \cup {Outcome("ok", "ok", "json", d) : d \in GoodPayloads \cup BadPayloads}

(* tools.py download_tiktok_video: a path, or the RuntimeError it raises.  *)
(* The "nonzero" and "missing" errors are raised inside the try block and  *)
(* re-wrapped by its own `except Exception`.                               *)
download_tiktok_video(o) ==
    CASE o.download = "ok"      -> [raised |-> FALSE, error |-> None]
      [] o.download = "timeout" -> [raised |-> TRUE, error |-> "Video download timed out"]
      [] o.download = "nonzero" ->
            [raised |-> TRUE, error |-> "Error downloading video: Video download failed"]
      [] o.download = "missing" ->
            [raised |-> TRUE,
             error |-> "Error downloading video: Video file not found after download"]

(* schema.py Recipe.model_validate: title is a required str, difficulty is *)
(* one of the three literals or None; title and servings carry no bound.   *)
ModelValidate(data) ==
    /\ data.recipe_overview.title # None
    /\ data.recipe_overview.difficulty \in Difficulties \cup {None}

(* tools.py transcribe_recipe: the Recipe, or the exception that leaves it *)
(* geminiCalled: whether client.models.generate_content was invoked.       *)
(* exc: the class of the exception; the one generate_content raises is the *)
(* client library's own, every other one is a RuntimeError.                *)
transcribe_recipe(o) ==
    LET dl == download_tiktok_video(o) IN
    IF dl.raised THEN
        [raised |-> TRUE, exc |-> "RuntimeError", error |-> dl.error,
         recipe |-> NoRecipe, geminiCalled |-> FALSE]
    ELSE IF o.api = "error" THEN
        [raised |-> TRUE, exc |-> "APIError", error |-> "Gemini API error",
         recipe |-> NoRecipe, geminiCalled |-> TRUE]
    ELSE IF o.text = "empty" THEN
        [raised |-> TRUE, exc |-> "RuntimeError", error |-> "Empty response from Gemini",
         recipe |-> NoRecipe, geminiCalled |-> TRUE]
    ELSE IF o.text = "garbage" THEN
        [raised |-> TRUE, exc |-> "RuntimeError", error |-> "Gemini returned invalid JSON",
         recipe |-> NoRecipe, geminiCalled |-> TRUE]
    ELSE IF ~ModelValidate(o.data) THEN
        [raised |-> TRUE, exc |-> "RuntimeError",
         error |-> "Response did not match recipe schema",
         recipe |-> NoRecipe, geminiCalled |-> TRUE]
    ELSE
        [raised |-> FALSE, exc |-> None, error |-> None, recipe |-> o.data,
         geminiCalled |-> TRUE]

(* a variant of extract_recipe_from_url that catches RuntimeError only *)
extract_recipe_from_url_runtime_only(o) ==
    LET r == transcribe_recipe(o) IN
    IF r.raised
    THEN [success |-> FALSE, recipe |-> NoRecipe, error |-> r.error,
          raised |-> r.exc # "RuntimeError"]
    ELSE [success |-> TRUE, recipe |-> r.recipe, error |-> None, raised |-> FALSE]

(* tools.py extract_recipe_from_url: `except Exception` turns every        *)
(* exception into a result dict.  raised: an exception leaves the tool.    *)
extract_recipe_from_url(o) ==
    LET r == transcribe_recipe(o) IN
    IF r.raised
    THEN [success |-> FALSE, recipe |-> NoRecipe, error |-> r.error, raised |-> FALSE]
    ELSE [success |-> TRUE, recipe |-> r.recipe, error |-> None, raised |-> FALSE]

(* An exception that leaves the tool leaves url_extract_node (graph.py 14   *)
(* has no handler), graph.invoke and recipe_agent (agent.py 12) with it.   *)
WorkflowRaises(o) == extract_recipe_from_url(o).raised

(* validate_recipe_structure is imported by graph.py from src.tools, which *)
(* does not define it.  Modelled from the design: title non-empty and      *)
(* servings >= 1 are the hard-required checks; the findings are data.      *)
validate_recipe_structure(recipe_data) ==
    LET errs == (IF recipe_data.recipe_overview.title = ""
                    THEN <<"title is required">> ELSE <<>>)
                \o (IF recipe_data.recipe_overview.servings < 1
                    THEN <<"servings must be at least 1">> ELSE <<>>)
    IN [is_valid |-> errs = <<>>, error |-> errs]

-----------------------------------------------------------------------------
(* schema.py AgentState as recipe_agent constructs it.  is_valid_recipe    *)
(* and validation_errors are not declared fields: they exist only once     *)
(* validation_node has written them (<<>> = not written, <<v>> = v).       *)
AgentState(video_url, max_retries) ==
    [video_url |-> video_url,
     extracted_recipe |-> NoRecipe,
     extraction_status |-> PENDING,
     error_message |-> None,
     retry_count |-> 0,
     max_retries |-> max_retries,
     number_of_steps |-> 0,
     is_valid_recipe |-> <<>>,
     validation_errors |-> <<>>]

(* a variant of model_copy that assigns the fields on the object itself   *)
(* and returns that object                                                 *)
model_copy_in_place(state, updated) == [given |-> updated, returned |-> updated]

(* state.model_copy(update=...), as both nodes return it (graph.py 17, 26,  *)
(* 44, 56): a new object holding the updated fields; the object it is      *)
(* called on keeps its own.  given: the object the node was handed, as it  *)
(* is once the node has returned.                                          *)
model_copy(state, updated) == [given |-> state, returned |-> updated]

(* graph.py url_extract_node; first a variant that counts a retry on failure *)
url_extract_node_counting(state, o) ==
    LET extraction_result == extract_recipe_from_url(o) IN
    IF extraction_result.success
    THEN [state EXCEPT !.extraction_status = RUNNING,
                       !.extracted_recipe = extraction_result.recipe]
    ELSE [state EXCEPT !.extraction_status = FAILED,
                       !.error_message = extraction_result.error,
                       !.retry_count = state.retry_count + 1]

(* a variant that leaves the status untouched when extraction fails *)
url_extract_node_silent(state, o) ==
    LET extraction_result == extract_recipe_from_url(o) IN
    IF extraction_result.success
    THEN [state EXCEPT !.extraction_status = RUNNING,
                       !.extracted_recipe = extraction_result.recipe]
    ELSE [state EXCEPT !.error_message = extraction_result.error]

(* a variant that treats max_retries as the number of attempts allowed *)
url_extract_node_budgeted(state, o) ==
    LET extraction_result == extract_recipe_from_url(o) IN
    IF state.max_retries = 0
    THEN [state EXCEPT !.extraction_status = FAILED,
                       !.error_message = "No attempts left"]
    ELSE IF extraction_result.success
    THEN [state EXCEPT !.extraction_status = RUNNING,
                       !.extracted_recipe = extraction_result.recipe]
    ELSE [state EXCEPT !.extraction_status = FAILED,
                       !.error_message = extraction_result.error]

(* a variant that records a fixed message in place of the reported reason *)
url_extract_node_generic(state, o) ==
    LET extraction_result == extract_recipe_from_url(o) IN
    IF extraction_result.success
    THEN [state EXCEPT !.extraction_status = RUNNING,
                       !.extracted_recipe = extraction_result.recipe]
    ELSE [state EXCEPT !.extraction_status = FAILED,
                       !.error_message = "Extraction failed"]

(* a variant that fills in an empty recipe when extraction fails *)
url_extract_node_fallback(state, o) ==
    LET extraction_result == extract_recipe_from_url(o) IN
    IF extraction_result.success
    THEN [state EXCEPT !.extraction_status = RUNNING,
                       !.extracted_recipe = extraction_result.recipe]
    ELSE [state EXCEPT !.extraction_status = FAILED,
                       !.error_message = extraction_result.error,
                       !.extracted_recipe = RecipeBlank]

(* a variant that reports a failed extraction as still running *)
url_extract_node_optimistic(state, o) ==
    LET extraction_result == extract_recipe_from_url(o) IN
    IF extraction_result.success
    THEN [state EXCEPT !.extraction_status = RUNNING,
                       !.extracted_recipe = extraction_result.recipe]
    ELSE [state EXCEPT !.extraction_status = RUNNING,
                       !.error_message = extraction_result.error]

url_extract_node(state, o) ==
    LET extraction_result == extract_recipe_from_url(o) IN
    IF extraction_result.success
    THEN [state EXCEPT !.extraction_status = RUNNING,
                       !.extracted_recipe = extraction_result.recipe]
    ELSE [state EXCEPT !.extraction_status = FAILED,
                       !.error_message = extraction_result.error]

(* a variant of validation_node that fails the run on a validation finding *)
validation_node_strict(state) ==
    IF state.extracted_recipe = NoRecipe
    THEN [state EXCEPT !.extraction_status = FAILED,
                       !.error_message = "No recipe data to validate",
                       !.is_valid_recipe = <<FALSE>>]
    ELSE LET validation_result == validate_recipe_structure(state.extracted_recipe) IN
         [state EXCEPT !.extraction_status =
                            IF validation_result.is_valid THEN SUCCESS ELSE FAILED,
                       !.is_valid_recipe = <<validation_result.is_valid>>,
                       !.validation_errors = <<validation_result.error>>]

(* a variant of validation_node that sends the run back to pending *)
validation_node_requeue(state) ==
    IF state.extracted_recipe = NoRecipe
    THEN [state EXCEPT !.extraction_status = FAILED,
                       !.error_message = "No recipe data to validate",
                       !.is_valid_recipe = <<FALSE>>]
    ELSE LET validation_result == validate_recipe_structure(state.extracted_recipe) IN
         [state EXCEPT !.extraction_status =
                            IF validation_result.is_valid THEN SUCCESS ELSE PENDING,
                       !.is_valid_recipe = <<validation_result.is_valid>>,
                       !.validation_errors = <<validation_result.error>>]

(* graph.py validation_node *)
validation_node(state) ==
    IF state.extracted_recipe = NoRecipe
    THEN [state EXCEPT !.extraction_status = FAILED,
                       !.error_message = "No recipe data to validate",
                       !.is_valid_recipe = <<FALSE>>]
    ELSE LET validation_result == validate_recipe_structure(state.extracted_recipe) IN
         [state EXCEPT !.extraction_status = SUCCESS,
                       !.is_valid_recipe = <<validation_result.is_valid>>,
                       !.validation_errors = <<validation_result.error>>]

(* a variant of route_after_extraction that sends a failed extraction back *)
(* to the extraction node while retries are left                            *)
route_after_extraction_retrying(state) ==
    IF state.extraction_status = RUNNING THEN "recipe_validation"
    ELSE IF state.retry_count < state.max_retries THEN "video_analysis"
    ELSE "END"

(* a variant of route_after_extraction that always goes on to validation *)
route_after_extraction_unconditional(state) == "recipe_validation"

(* graph.py route_after_extraction, route_after_validation *)
route_after_extraction(state) ==
    IF state.extraction_status = RUNNING THEN "recipe_validation" ELSE "END"

route_after_validation(state) == "END"

(* graph.invoke over the graph create_agent_graph compiles:                *)
(* START -> video_analysis -> (route) -> recipe_validation -> END          *)
GraphInvoke(initial_state, o) ==
    LET s1 == url_extract_node(initial_state, o) IN
    IF route_after_extraction(s1) = "recipe_validation"
    THEN validation_node(s1)
    ELSE s1

(* agent.py recipe_agent: the dict built from the graph's final state *)
AgentResult(result) ==
    [success |-> result.extraction_status = SUCCESS,
     recipe |-> result.extracted_recipe,
     metadata |-> [steps |-> result.number_of_steps,
                   is_valid |-> result.is_valid_recipe,
                   errors |-> result.validation_errors]]

recipe_agent(video_url, max_retries, o) ==
    AgentResult(GraphInvoke(AgentState(video_url, max_retries), o))


-----------------------------------------------------------------------------
(* Text conversions used by the persistence gateway.                       *)
Digits == <<"0", "1", "2", "3", "4", "5", "6", "7", "8", "9">>
IsDigit(c) == \E d \in 1..10 : Digits[d] = c
DigitVal(c) == (CHOOSE d \in 1..10 : Digits[d] = c) - 1

RECURSIVE DigitsValue(_)
DigitsValue(cs) ==
    IF cs = <<>> THEN 0
    ELSE 10 * DigitsValue(SubSeq(cs, 1, Len(cs) - 1)) + DigitVal(cs[Len(cs)])

(* float(ingredient.amount) on the amounts that occur here: a non-empty    *)
(* run of digits is that number; text holding a letter, a space or a slash *)
(* ("a pinch", "1/2") raises ValueError.                                   *)
ParseFloat(cs) ==
    IF cs # <<>> /\ \A i \in 1..Len(cs) : IsDigit(cs[i])
    THEN [ok |-> TRUE, value |-> DigitsValue(cs)]
    ELSE [ok |-> FALSE, value |-> 0]

RECURSIVE NatStr(_)
NatStr(n) == IF n < 10 THEN <<Digits[n + 1]>>
             ELSE NatStr(n \div 10) \o <<Digits[(n % 10) + 1]>>

(* str(x) of a float holding a whole number: "200.0" *)
FloatStr(n) == NatStr(n) \o <<".", "0">>

-----------------------------------------------------------------------------
(* The store: three tables, each the sequence of its rows.                 *)
Range(f) == {f[i] : i \in DOMAIN f}

(* crud.py create_recipe: recipe_dict *)
RecipeRow(id, recipe_data, source_url) ==
    [id |-> id,
     title |-> recipe_data.recipe_overview.title,
     source_url |-> source_url,
     base_servings |-> recipe_data.recipe_overview.servings,
     prep_time |-> recipe_data.recipe_overview.prep_time,
     cook_time |-> recipe_data.recipe_overview.cook_time,
     difficulty |-> recipe_data.recipe_overview.difficulty,
     cuisine_type |-> recipe_data.recipe_overview.cuisine_type]

(* a variant of ingredients_batch whose original_text is written from the  *)
(* parsed number                                                           *)
ingredients_batch_from_number(recipe_id, recipe_data) ==
    [i \in 1..Len(recipe_data.ingredients) |->
        LET ingredient == recipe_data.ingredients[i]
            parsed == ParseFloat(ingredient.amount) IN
        [recipe_id |-> recipe_id,
         name |-> ingredient.item,
         amount |-> IF parsed.ok THEN parsed.value ELSE 0,
         unit |-> ingredient.unit,
         original_text |-> <<NatStr(IF parsed.ok THEN parsed.value ELSE 0),
                             IF ingredient.unit = None THEN "" ELSE ingredient.unit,
                             ingredient.item>>]]

(* crud.py create_recipe / update_recipe: ingredients_batch.  original_text *)
(* is the f-string "{amount} {unit or ''} {item}", kept as its three parts. *)
ingredients_batch(recipe_id, recipe_data) ==
    [i \in 1..Len(recipe_data.ingredients) |->
        LET ingredient == recipe_data.ingredients[i]
            parsed == ParseFloat(ingredient.amount) IN
        [recipe_id |-> recipe_id,
         name |-> ingredient.item,
         amount |-> IF parsed.ok THEN parsed.value ELSE 0,
         unit |-> ingredient.unit,
         original_text |-> <<ingredient.amount,
                             IF ingredient.unit = None THEN "" ELSE ingredient.unit,
                             ingredient.item>>]]

(* a variant of instructions_batch that numbers the steps from 0 *)
instructions_batch_zero_based(recipe_id, recipe_data) ==
    [i \in 1..Len(recipe_data.instructions) |->
        [recipe_id |-> recipe_id,
         step_number |-> i - 1,
         instruction_text |-> recipe_data.instructions[i]]]

(* crud.py create_recipe / update_recipe: instructions_batch *)
instructions_batch(recipe_id, recipe_data) ==
    [i \in 1..Len(recipe_data.instructions) |->
        [recipe_id |-> recipe_id,
         step_number |-> i,
         instruction_text |-> recipe_data.instructions[i]]]

(* select with embedded ingredients and instructions: a recipe row with    *)
(* its child rows, in table order                                          *)
Embed(row) ==
    row @@ [ingredients |-> SelectSeq(ingredients, LAMBDA r : r.recipe_id = row.id),
            instructions |-> SelectSeq(instructions, LAMBDA r : r.recipe_id = row.id)]

FirstOrNone(rows) == IF Len(rows) > 0 THEN Embed(rows[1]) ELSE NoRow

(* crud.py get_recipe_by_id *)
get_recipe_by_id(recipe_id) ==
    FirstOrNone(SelectSeq(recipes, LAMBDA r : r.id = recipe_id))

(* a variant of the lookup that never finds a row *)
get_recipe_by_source_url_blind(source_url) == NoRow

(* a variant of the lookup that compares hosts only *)
get_recipe_by_source_url_same_host(source_url) ==
    FirstOrNone(SelectSeq(recipes,
        LAMBDA r : r.source_url # NoUrl /\ r.source_url.host = source_url.host))

(* a variant of the lookup that looks at the newest row only *)
get_recipe_by_source_url_newest(source_url) ==
    IF recipes = <<>> \/ recipes[Len(recipes)].source_url # source_url THEN NoRow
    ELSE Embed(recipes[Len(recipes)])

(* crud.py get_recipe_by_source_url *)
get_recipe_by_source_url(source_url) ==
    FirstOrNone(SelectSeq(recipes, LAMBDA r : r.source_url = source_url))

(* sorted(instructions_data, key=step_number): a stable insertion sort *)
RECURSIVE InsertByStep(_, _)
InsertByStep(sorted, r) ==
    IF sorted = <<>> THEN <<r>>
    ELSE IF sorted[Len(sorted)].step_number <= r.step_number THEN Append(sorted, r)
    ELSE Append(InsertByStep(SubSeq(sorted, 1, Len(sorted) - 1), r), sorted[Len(sorted)])

RECURSIVE SortByStep(_)
SortByStep(rows) ==
    IF rows = <<>> THEN <<>>
    ELSE InsertByStep(SortByStep(SubSeq(rows, 1, Len(rows) - 1)), rows[Len(rows)])

(* crud.py recipe_to_schema *)
recipe_to_schema(db_recipe) ==
    LET sorted_instructions == SortByStep(db_recipe.instructions) IN
    [id |-> db_recipe.id,
     recipe_overview |->
        [id |-> db_recipe.id,
         title |-> db_recipe.title,
         prep_time |-> db_recipe.prep_time,
         cook_time |-> db_recipe.cook_time,
         servings |-> db_recipe.base_servings,
         difficulty |-> db_recipe.difficulty,
         cuisine_type |-> db_recipe.cuisine_type],
     ingredients |->
        [i \in 1..Len(db_recipe.ingredients) |->
            [item |-> db_recipe.ingredients[i].name,
             amount |-> FloatStr(db_recipe.ingredients[i].amount),
             unit |-> db_recipe.ingredients[i].unit,
             notes |-> db_recipe.ingredients[i].original_text]],
     instructions |->
        [i \in 1..Len(sorted_instructions) |-> sorted_instructions[i].instruction_text]]

(* models.py 19: created_at is stamped when the row is inserted and never   *)
(* rewritten, so the table's insertion order is ascending created_at and   *)
(* .order("created_at", desc=True) is the table read backwards.            *)
OrderByCreatedAtDesc(rows) == [i \in 1..Len(rows) |-> rows[Len(rows) + 1 - i]]

(* .range(first, last): the rows at the 0-based positions first..last *)
RangeRows(rows, first, last) ==
    IF first >= Len(rows) \/ last < first THEN <<>>
    ELSE SubSeq(rows, first + 1, IF last + 1 < Len(rows) THEN last + 1 ELSE Len(rows))

(* a variant of get_recipes that asks for the range skip..skip+limit *)
get_recipes_inclusive(skip, limit) ==
    LET rows == RangeRows(OrderByCreatedAtDesc(recipes), skip, skip + limit) IN
    [i \in 1..Len(rows) |-> Embed(rows[i])]

(* crud.py get_recipes *)
get_recipes(skip, limit) ==
    LET rows == RangeRows(OrderByCreatedAtDesc(recipes), skip, skip + limit - 1) IN
    [i \in 1..Len(rows) |-> Embed(rows[i])]

(* The store a starting server finds: database.py init_db only verifies   *)
(* the connection, so the tables hold whatever earlier writers left.       *)
(* Each start holds at most one recipe per source_url.                     *)
StoreOf(rows) ==
    [recipes |-> [i \in 1..Len(rows) |-> RecipeRow(i, rows[i][1], rows[i][2])],
     ingredients |->
        IF Len(rows) = 0 THEN <<>>
        ELSE IF Len(rows) = 1 THEN ingredients_batch(1, rows[1][1])
        ELSE ingredients_batch(1, rows[1][1]) \o ingredients_batch(2, rows[2][1]),
     instructions |->
        IF Len(rows) = 0 THEN <<>>
        ELSE IF Len(rows) = 1 THEN instructions_batch(1, rows[1][1])
        ELSE instructions_batch(1, rows[1][1]) \o instructions_batch(2, rows[2][1]),
     nextRecipeId |-> Len(rows) + 1]

InitialStores ==
    {StoreOf(<<>>),
     StoreOf(<<<<RecipePasta, UrlA>>>>),
     StoreOf(<<<<RecipeRice, UrlT>>, <<RecipePasta, NoUrl>>>>),
     StoreOf(<<<<RecipePasta, UrlASlash>>, <<RecipeRice, UrlAQuery>>>>)}

-----------------------------------------------------------------------------
(* Request tasks.  Every request runs on a task of its own; the two tasks   *)
(* are numbered in order of arrival and interleave between store calls.    *)
(* What happened before them is the content of the store they start from.  *)
MaxRecipeId == 3

Procs == {1, 2}
RecipeIds == 1..MaxRecipeId

NoResult == [absent |-> TRUE]
NoResp == [absent |-> TRUE]
NoOutcome == [absent |-> TRUE]

IdleReq ==
    [pc |-> "idle", op |-> None, video_url |-> NoUrl, max_retries |-> 0,
     recipe |-> NoRecipe, source_url |-> NoUrl, recipe_id |-> NoId,
     new_id |-> NoId, agent |-> NoResult, resp |-> NoResp,
     skip |-> 0, limit |-> 0, outcome |-> NoOutcome,
     existing_recipe |-> NoRow, deleted |-> <<>>, failed_at |-> None,
     after |-> {}, during |-> {}]

InFlight(q) == req[q].pc \notin {"idle", "done"}
Done(q) == req[q].pc = "done"

(* A request arrives on task p.  after: the tasks that had answered before *)
(* it arrived; during: the tasks in flight while it runs.                  *)
Arrive(p, r) ==
    /\ req[p].pc = "idle"
    /\ \A q \in Procs : q < p => req[q].pc # "idle"
    /\ req' = [q \in Procs |->
                 IF q = p
                 THEN [r EXCEPT !.after = {t \in Procs : Done(t)},
                                !.during = {t \in Procs : InFlight(t)}]
                 ELSE IF InFlight(q)
                 THEN [req[q] EXCEPT !.during = @ \cup {p}]
                 ELSE req[q]]

Respond(p, resp) == req' = [req EXCEPT ![p].pc = "done", ![p].resp = resp]
Goto(p, pc) == req' = [req EXCEPT ![p].pc = pc]

(* schema.py ErrorResponse inside an HTTPException *)
ErrorResponse(code, error, details) ==
    [status_code |-> code, error |-> error, details |-> details]

(* The inputs the requests are drawn from *)
ExtractUrls == {UrlA, UrlAUpper, UrlT}
RetryChoices == {0, MaxRetriesLimit}
ApiOutcomes ==
    {Outcome("ok", "ok", "json", RecipePasta),
     Outcome("ok", "ok", "json", RecipeBlank),
     Outcome("ok", "ok", "garbage", NoRecipe),
     Outcome("timeout", "ok", "empty", NoRecipe)}
SaveRecipes == {RecipePasta, RecipeBlank}
UpdateRecipes == {RecipeRice}
SourceUrls == {NoUrl, UrlA}
ListSkips == {0, 1, 2}
ListLimits == {1, 2}

CurrentStore ==
    [recipes |-> recipes, ingredients |-> ingredients,
     instructions |-> instructions, nextRecipeId |-> nextRecipeId]

HoldsStore(st) ==
    /\ recipes = st.recipes
    /\ ingredients = st.ingredients
    /\ instructions = st.instructions
    /\ nextRecipeId = st.nextRecipeId

SetStore(st) ==
    /\ recipes' = st.recipes
    /\ ingredients' = st.ingredients
    /\ instructions' = st.instructions
    /\ nextRecipeId' = st.nextRecipeId

RecipeExists(recipe_id) == \E i \in 1..Len(recipes) : recipes[i].id = recipe_id

-----------------------------------------------------------------------------
(* POST /extract: main.py extract_recipe                                   *)
StartExtract(p) ==
    /\ \E u \in ExtractUrls, m \in RetryChoices :
          Arrive(p, [IdleReq EXCEPT !.pc = "x_lookup", !.op = "extract",
                                    !.video_url = u, !.max_retries = m])
    /\ UNCHANGED <<wf, storeVars, inferenceCalls>>

(* main.py 105-114: the answer on a cache hit *)
CachedResponse(existing_recipe) ==
    [status_code |-> 200,
     success |-> TRUE,
     recipe |-> recipe_to_schema(existing_recipe),
     metadata |-> [steps |-> 0, cached |-> TRUE, database_id |-> existing_recipe.id]]

(* main.py 98-114: the cache lookup *)
ExtractLookup(p) ==
    /\ req[p].pc = "x_lookup"
    /\ LET existing_recipe == get_recipe_by_source_url(HttpUrlStr(req[p].video_url)) IN
       IF existing_recipe # NoRow
       THEN Respond(p, CachedResponse(existing_recipe))
       ELSE Goto(p, "x_agent")
    /\ UNCHANGED <<wf, storeVars, inferenceCalls>>

(* a variant of the miss path that stores whatever the workflow returned *)
ExtractMissStore_always(store, result, video_url) ==
    [store EXCEPT
        !.recipes = Append(@, RecipeRow(store.nextRecipeId,
                                  IF result.recipe = NoRecipe THEN RecipeBlank
                                  ELSE result.recipe, video_url)),
        !.nextRecipeId = @ + 1]

(* main.py 116-138: the store after a cache miss.  The handler makes no    *)
(* store call between recipe_agent and the response.                       *)
ExtractMissStore(store, result, video_url) == store

(* schema.py RecipeOverview 22-29: the fields an overview can be assigned *)
RecipeOverviewFields ==
    {"id", "title", "prep_time", "cook_time", "servings", "difficulty", "cuisine_type"}

(* main.py 140-156: the answer when an exception reaches the handler;      *)
(* processing_time is time.time() - start_time, some elapsed time          *)
ExtractFailed(video_url, original_error) ==
    ErrorResponse(500, "Failed to extract recipe",
        [processing_time |-> "elapsed", video_url |-> video_url,
         original_error |-> original_error])

(* main.py 123-156: the answer on a cache miss.  Assigning a field that    *)
(* RecipeOverview does not declare raises ValueError, which the handler's  *)
(* except clause turns into the 500 error envelope.                        *)
MissResponse(result, video_url) ==
    LET metadata == [steps |-> result.metadata.steps,
                     is_valid |-> result.metadata.is_valid,
                     errors |-> result.metadata.errors,
                     cached |-> FALSE,
                     database_id |-> NoId]
        creator_username == extract_tiktok_username(video_url) IN
    IF /\ creator_username # None
       /\ result.recipe # NoRecipe
       /\ "creator_username" \notin RecipeOverviewFields
    THEN ExtractFailed(video_url, "RecipeOverview object has no field creator_username")
    ELSE [status_code |-> 200,
          success |-> result.success,
          recipe |-> result.recipe,
          metadata |-> metadata]

(* main.py 116-138: run the workflow and answer *)
ExtractAgent(p) ==
    /\ req[p].pc = "x_agent"
    /\ \E o \in ApiOutcomes :
          LET video_url == HttpUrlStr(req[p].video_url)
              result == recipe_agent(video_url, req[p].max_retries, o) IN
          /\ req' = [req EXCEPT ![p].pc = "done",
                                ![p].outcome = o,
                                ![p].agent = IF WorkflowRaises(o) THEN NoResult ELSE result,
                                ![p].resp = IF WorkflowRaises(o)
                                            THEN ExtractFailed(video_url, transcribe_recipe(o).error)
                                            ELSE MissResponse(result, video_url)]
          /\ inferenceCalls' =
                [inferenceCalls EXCEPT ![video_url] =
                    @ + (IF transcribe_recipe(o).geminiCalled THEN 1 ELSE 0)]
          /\ SetStore(ExtractMissStore(CurrentStore, result, video_url))
    /\ UNCHANGED wf

-----------------------------------------------------------------------------
(* POST /recipes: main.py save_recipe -> crud.py create_recipe             *)
StartSave(p) ==
    /\ nextRecipeId <= MaxRecipeId
    /\ \E r \in SaveRecipes, u \in SourceUrls :
          Arrive(p, [IdleReq EXCEPT !.pc = "c_recipe", !.op = "save",
                                    !.recipe = r, !.source_url = u])
    /\ UNCHANGED <<wf, storeVars, inferenceCalls>>

(* a variant of save_recipe that hands the request's source_url on *)
SaveSourceUrl_passed(request_source_url) == request_source_url

(* main.py 173: create_recipe is called without source_url, so the         *)
(* parameter keeps its default None (crud.py 11)                           *)
SaveSourceUrl(request_source_url) == NoUrl

(* after the recipe row: the next store call of create_recipe *)
AfterRecipeRow(recipe_data) ==
    IF Len(recipe_data.ingredients) > 0 THEN "c_ingredients"
    ELSE IF Len(recipe_data.instructions) > 0 THEN "c_instructions"
    ELSE "c_get"

(* crud.py 18-30: insert the recipe row, read the new id *)
SaveInsertRecipe(p) ==
    /\ req[p].pc = "c_recipe"
    /\ recipes' = Append(recipes,
                     RecipeRow(nextRecipeId, req[p].recipe, SaveSourceUrl(req[p].source_url)))
    /\ nextRecipeId' = nextRecipeId + 1
    /\ req' = [req EXCEPT ![p].new_id = nextRecipeId,
                          ![p].pc = AfterRecipeRow(req[p].recipe)]
    /\ UNCHANGED <<wf, ingredients, instructions, inferenceCalls>>

SaveFailed(original_error) ==
    ErrorResponse(500, "Failed to save recipe", [original_error |-> original_error])

(* crud.py 50-52: batch insert of the ingredients; models.py 35: the rows  *)
(* reference recipes.id, so the insert is rejected once the recipe is gone *)
SaveInsertIngredients(p) ==
    /\ req[p].pc = "c_ingredients"
    /\ IF RecipeExists(req[p].new_id)
       THEN /\ ingredients' = ingredients \o ingredients_batch(req[p].new_id, req[p].recipe)
            /\ Goto(p, IF Len(req[p].recipe.instructions) > 0
                       THEN "c_instructions" ELSE "c_get")
       ELSE /\ Respond(p, SaveFailed("foreign key violation"))
            /\ UNCHANGED ingredients
    /\ UNCHANGED <<wf, recipes, instructions, nextRecipeId, inferenceCalls>>

(* crud.py 63-65: batch insert of the instructions *)
SaveInsertInstructions(p) ==
    /\ req[p].pc = "c_instructions"
    /\ IF RecipeExists(req[p].new_id)
       THEN /\ instructions' = instructions \o instructions_batch(req[p].new_id, req[p].recipe)
            /\ Goto(p, "c_get")
       ELSE /\ Respond(p, SaveFailed("foreign key violation"))
            /\ UNCHANGED instructions
    /\ UNCHANGED <<wf, recipes, ingredients, nextRecipeId, inferenceCalls>>

(* crud.py 68 and main.py 175-188: read the recipe back and answer;        *)
(* db_recipe["id"] on None raises TypeError                                *)
SaveReturn(p) ==
    /\ req[p].pc = "c_get"
    /\ LET db_recipe == get_recipe_by_id(req[p].new_id) IN
       IF db_recipe = NoRow
       THEN Respond(p, SaveFailed("NoneType object is not subscriptable"))
       ELSE Respond(p, [status_code |-> 200, success |-> TRUE,
                        recipe_id |-> db_recipe.id])
    /\ UNCHANGED <<wf, storeVars, inferenceCalls>>

-----------------------------------------------------------------------------
(* PUT /recipes/{recipe_id}: main.py update_recipe_endpoint -> crud.py     *)
(* update_recipe                                                           *)
StartUpdate(p) ==
    /\ \E id \in RecipeIds, r \in UpdateRecipes, u \in SourceUrls :
          Arrive(p, [IdleReq EXCEPT !.pc = "u_get", !.op = "update",
                                    !.recipe_id = id, !.recipe = r, !.source_url = u])
    /\ UNCHANGED <<wf, storeVars, inferenceCalls>>

(* a variant in which the 404 is caught by `except Exception` and re-coded *)
NotFound_recoded(recipe_id) ==
    ErrorResponse(500, "Failed to get recipe", [original_error |-> "404: Recipe not found"])

(* main.py 229-235, 264-270, 303-309: HTTPException(404), passed on by      *)
(* `except HTTPException: raise`                                           *)
NotFound(recipe_id) ==
    ErrorResponse(404, "Recipe not found", [recipe_id |-> recipe_id])

UpdateFailed(original_error) ==
    ErrorResponse(500, "Failed to update recipe", [original_error |-> original_error])

(* crud.py 165-167 and main.py 303-309: the existence check *)
UpdateCheck(p) ==
    /\ req[p].pc = "u_get"
    /\ LET existing_recipe == get_recipe_by_id(req[p].recipe_id) IN
       IF existing_recipe = NoRow
       THEN Respond(p, NotFound(req[p].recipe_id))
       ELSE req' = [req EXCEPT ![p].pc = "u_update",
                               ![p].existing_recipe = existing_recipe]
    /\ UNCHANGED <<wf, storeVars, inferenceCalls>>

(* a variant of the column update that also clears source_url *)
UpdateFields_resetting(p) ==
    /\ req[p].pc = "u_update"
    /\ recipes' = [i \in 1..Len(recipes) |->
                     IF recipes[i].id = req[p].recipe_id
                     THEN RecipeRow(recipes[i].id, req[p].recipe, NoUrl)
                     ELSE recipes[i]]
    /\ Goto(p, "u_del_ing")
    /\ UNCHANGED <<wf, ingredients, instructions, nextRecipeId, inferenceCalls>>

(* crud.py 170-179: update the recipe's own columns; source_url is not     *)
(* among them                                                              *)
UpdateFields(p) ==
    /\ req[p].pc = "u_update"
    /\ recipes' = [i \in 1..Len(recipes) |->
                     IF recipes[i].id = req[p].recipe_id
                     THEN RecipeRow(recipes[i].id, req[p].recipe, recipes[i].source_url)
                     ELSE recipes[i]]
    /\ Goto(p, "u_del_ing")
    /\ UNCHANGED <<wf, ingredients, instructions, nextRecipeId, inferenceCalls>>

(* crud.py 182: delete the recipe's ingredients *)
UpdateDeleteIngredients(p) ==
    /\ req[p].pc = "u_del_ing"
    /\ ingredients' = SelectSeq(ingredients, LAMBDA r : r.recipe_id # req[p].recipe_id)
    /\ Goto(p, "u_del_ins")
    /\ UNCHANGED <<wf, recipes, instructions, nextRecipeId, inferenceCalls>>

(* crud.py 183: delete the recipe's instructions *)
UpdateDeleteInstructions(p) ==
    /\ req[p].pc = "u_del_ins"
    /\ instructions' = SelectSeq(instructions, LAMBDA r : r.recipe_id # req[p].recipe_id)
    /\ Goto(p, IF Len(req[p].recipe.ingredients) > 0 THEN "u_ins_ing"
               ELSE IF Len(req[p].recipe.instructions) > 0 THEN "u_ins_ins"
               ELSE "u_get2")
    /\ UNCHANGED <<wf, recipes, ingredients, nextRecipeId, inferenceCalls>>

(* crud.py 201-203: batch insert of the new ingredients *)
UpdateInsertIngredients(p) ==
    /\ req[p].pc = "u_ins_ing"
    /\ IF RecipeExists(req[p].recipe_id)
       THEN /\ ingredients' = ingredients \o ingredients_batch(req[p].recipe_id, req[p].recipe)
            /\ Goto(p, IF Len(req[p].recipe.instructions) > 0
                       THEN "u_ins_ins" ELSE "u_get2")
       ELSE /\ Respond(p, UpdateFailed("foreign key violation"))
            /\ UNCHANGED ingredients
    /\ UNCHANGED <<wf, recipes, instructions, nextRecipeId, inferenceCalls>>

(* crud.py 214-216: batch insert of the new instructions *)
UpdateInsertInstructions(p) ==
    /\ req[p].pc = "u_ins_ins"
    /\ IF RecipeExists(req[p].recipe_id)
       THEN /\ instructions' = instructions \o instructions_batch(req[p].recipe_id, req[p].recipe)
            /\ Goto(p, "u_get2")
       ELSE /\ Respond(p, UpdateFailed("foreign key violation"))
            /\ UNCHANGED instructions
    /\ UNCHANGED <<wf, recipes, ingredients, nextRecipeId, inferenceCalls>>

(* schema.py 139-143: the fields UpdateRecipeRequest declares *)
UpdateRecipeRequestFields == {"recipe", "source_url"}

(* crud.py 221 and main.py 303-336: read the recipe back, then the         *)
(* endpoint's tail.  Lines 312 and 316 read request.creator_username: on a *)
(* request model without that field the read raises AttributeError, the    *)
(* except clause answers 500 and the store call of line 319 is not made.   *)
UpdateReturn(p) ==
    /\ req[p].pc = "u_get2"
    /\ LET db_recipe == get_recipe_by_id(req[p].recipe_id) IN
       IF db_recipe = NoRow
       THEN /\ Respond(p, NotFound(req[p].recipe_id))
            /\ UNCHANGED recipes
       ELSE IF "creator_username" \notin UpdateRecipeRequestFields
       THEN /\ Respond(p, UpdateFailed(
                    "UpdateRecipeRequest object has no attribute creator_username"))
            /\ UNCHANGED recipes
       ELSE /\ recipes' = [i \in 1..Len(recipes) |->
                             IF recipes[i].id = req[p].recipe_id /\ req[p].source_url # NoUrl
                             THEN [recipes[i] EXCEPT !.source_url = HttpUrlStr(req[p].source_url)]
                             ELSE recipes[i]]
            /\ Respond(p, [status_code |-> 200, success |-> TRUE,
                           recipe_id |-> db_recipe.id])
    /\ UNCHANGED <<wf, ingredients, instructions, nextRecipeId, inferenceCalls>>

-----------------------------------------------------------------------------
(* DELETE /recipes/{recipe_id}: main.py delete_recipe_endpoint -> crud.py  *)
(* delete_recipe                                                           *)
StartDelete(p) ==
    /\ \E id \in RecipeIds :
          Arrive(p, [IdleReq EXCEPT !.pc = "d_delete", !.op = "delete", !.recipe_id = id])
    /\ UNCHANGED <<wf, storeVars, inferenceCalls>>

(* a variant of the delete that answers without removing anything *)
DeleteRecipe_soft(p) ==
    /\ req[p].pc = "d_delete"
    /\ IF RecipeExists(req[p].recipe_id)
       THEN Respond(p, [status_code |-> 200, success |-> TRUE,
                        recipe_id |-> req[p].recipe_id])
       ELSE Respond(p, NotFound(req[p].recipe_id))
    /\ UNCHANGED <<wf, storeVars, inferenceCalls>>

(* a variant of the delete on a store that removes the recipe row alone *)
DeleteRecipe_row_only(p) ==
    /\ req[p].pc = "d_delete"
    /\ LET deleted == SelectSeq(recipes, LAMBDA r : r.id = req[p].recipe_id) IN
       /\ recipes' = SelectSeq(recipes, LAMBDA r : r.id # req[p].recipe_id)
       /\ req' = [req EXCEPT
                    ![p].pc = "done",
                    ![p].deleted = deleted,
                    ![p].resp = IF Len(deleted) > 0
                                THEN [status_code |-> 200, success |-> TRUE,
                                      recipe_id |-> req[p].recipe_id]
                                ELSE NotFound(req[p].recipe_id)]
    /\ UNCHANGED <<wf, ingredients, instructions, nextRecipeId, inferenceCalls>>

(* crud.py 142-148 and main.py 262-274: delete the row; models.py 22-28:   *)
(* the recipe owns its ingredients and instructions, which go with it.     *)
(* deleted: response.data, the rows the store reports as removed.          *)
DeleteRecipe(p) ==
    /\ req[p].pc = "d_delete"
    /\ LET deleted == SelectSeq(recipes, LAMBDA r : r.id = req[p].recipe_id) IN
       /\ recipes' = SelectSeq(recipes, LAMBDA r : r.id # req[p].recipe_id)
       /\ ingredients' = SelectSeq(ingredients, LAMBDA r : r.recipe_id # req[p].recipe_id)
       /\ instructions' = SelectSeq(instructions, LAMBDA r : r.recipe_id # req[p].recipe_id)
       /\ req' = [req EXCEPT
                    ![p].pc = "done",
                    ![p].deleted = deleted,
                    ![p].resp = IF Len(deleted) > 0
                                THEN [status_code |-> 200, success |-> TRUE,
                                      recipe_id |-> req[p].recipe_id]
                                ELSE NotFound(req[p].recipe_id)]
    /\ UNCHANGED <<wf, nextRecipeId, inferenceCalls>>

-----------------------------------------------------------------------------
(* GET /recipes/{recipe_id}: main.py get_recipe -> crud.py get_recipe_by_id *)
StartGet(p) ==
    /\ \E id \in RecipeIds :
          Arrive(p, [IdleReq EXCEPT !.pc = "g_get", !.op = "get", !.recipe_id = id])
    /\ UNCHANGED <<wf, storeVars, inferenceCalls>>

(* main.py 226-239: read the recipe, answer 404 or the recipe *)
GetRecipe(p) ==
    /\ req[p].pc = "g_get"
    /\ LET db_recipe == get_recipe_by_id(req[p].recipe_id) IN
       IF db_recipe = NoRow
       THEN Respond(p, NotFound(req[p].recipe_id))
       ELSE Respond(p, [status_code |-> 200, success |-> TRUE,
                        recipe |-> recipe_to_schema(db_recipe)])
    /\ UNCHANGED <<wf, storeVars, inferenceCalls>>

-----------------------------------------------------------------------------
(* GET /recipes: main.py get_all_recipes -> crud.py get_recipes            *)
StartList(p) ==
    /\ \E s \in ListSkips, l \in ListLimits :
          Arrive(p, [IdleReq EXCEPT !.pc = "l_list", !.op = "list",
                                    !.skip = s, !.limit = l])
    /\ UNCHANGED <<wf, storeVars, inferenceCalls>>

(* main.py 200-206: read the page, convert each row, count them *)
ListRecipes(p) ==
    /\ req[p].pc = "l_list"
    /\ LET db_recipes == get_recipes(req[p].skip, req[p].limit)
           recipes_out == [i \in 1..Len(db_recipes) |-> recipe_to_schema(db_recipes[i])] IN
       Respond(p, [status_code |-> 200, success |-> TRUE,
                   recipes |-> recipes_out, count |-> Len(recipes_out)])
    /\ UNCHANGED <<wf, storeVars, inferenceCalls>>

-----------------------------------------------------------------------------
(* One run of the workflow graph, node by node.                            *)
VideoUrls == {UrlA, UrlT}

WFIdle ==
    [node |-> "idle", state |-> AgentState(UrlA, DefaultMaxRetries),
     input |-> AgentState(UrlA, DefaultMaxRetries), prev |-> PENDING,
     handed |-> AgentState(UrlA, DefaultMaxRetries),
     given |-> AgentState(UrlA, DefaultMaxRetries),
     executed |-> <<>>, toolCalls |-> 0, geminiCalls |-> 0, result |-> NoResult]


(* recipe_agent builds the initial state and hands it to graph.invoke *)
InitWF ==
    /\ \E u \in VideoUrls, m \in 0..MaxRetriesLimit :
          wf = [WFIdle EXCEPT !.node = "START",
                              !.state = AgentState(u, m),
                              !.input = AgentState(u, m),
                              !.handed = AgentState(u, m),
                              !.given = AgentState(u, m)]
    /\ HoldsStore(StoreOf(<<>>))
    /\ req = [p \in Procs |-> IdleReq]
    /\ inferenceCalls = [u \in VideoUrls |-> 0]

(* workflow.add_edge(START, "video_analysis") *)
WFStart ==
    /\ wf.node = "START"
    /\ wf' = [wf EXCEPT !.node = "video_analysis"]
    /\ UNCHANGED apiVars

(* node "video_analysis", then add_conditional_edges(route_after_extraction) *)
WFExtract ==
    /\ wf.node = "video_analysis"
    /\ \E o \in Outcomes :
          LET call == model_copy(wf.state, url_extract_node(wf.state, o))
              new == call.returned IN
          wf' = [wf EXCEPT !.state = IF WorkflowRaises(o) THEN wf.state ELSE new,
                           !.handed = wf.state,
                           !.given = IF WorkflowRaises(o) THEN wf.state ELSE call.given,
                           !.prev = wf.state.extraction_status,
                           !.node = IF WorkflowRaises(o) THEN "raised"
                                    ELSE route_after_extraction(new),
                           !.executed = Append(wf.executed, "video_analysis"),
                           !.toolCalls = wf.toolCalls + 1,
                           !.geminiCalls = wf.geminiCalls
                               + (IF transcribe_recipe(o).geminiCalled THEN 1 ELSE 0)]
    /\ UNCHANGED apiVars

(* node "recipe_validation", then route_after_validation *)
WFValidate ==
    /\ wf.node = "recipe_validation"
    /\ LET call == model_copy(wf.state, validation_node(wf.state))
           new == call.returned IN
       wf' = [wf EXCEPT !.state = new,
                        !.handed = wf.state,
                        !.given = call.given,
                        !.prev = wf.state.extraction_status,
                        !.node = route_after_validation(new),
                        !.executed = Append(wf.executed, "recipe_validation")]
    /\ UNCHANGED apiVars

(* graph.invoke returns; recipe_agent builds its result dict *)
WFReturn ==
    /\ wf.node = "END"
    /\ wf' = [wf EXCEPT !.node = "returned", !.result = AgentResult(wf.state)]
    /\ UNCHANGED apiVars

NextWF == WFStart \/ WFExtract \/ WFValidate \/ WFReturn

SpecWF == InitWF /\ [][NextWF]_vars

(* graph.invoke is a synchronous call: a run that can take a step takes it *)
FairSpecWF == InitWF /\ [][NextWF]_vars /\ WF_vars(NextWF)

Terminal == {FAILED, SUCCESS}
ValidationRan == \E i \in 1..Len(wf.executed) : wf.executed[i] = "recipe_validation"

-----------------------------------------------------------------------------
(* The request handlers running against the store.                         *)
Init ==
    /\ wf = WFIdle
    /\ \E st \in InitialStores : HoldsStore(st)
    /\ req = [p \in Procs |-> IdleReq]
    /\ inferenceCalls = [u \in VideoUrls |-> 0]

Next ==
    \E p \in Procs :
        \/ StartExtract(p)
        \/ ExtractLookup(p)
        \/ ExtractAgent(p)
        \/ StartSave(p)
        \/ SaveInsertRecipe(p)
        \/ SaveInsertIngredients(p)
        \/ SaveInsertInstructions(p)
        \/ SaveReturn(p)
        \/ StartUpdate(p)
        \/ UpdateCheck(p)
        \/ UpdateFields(p)
        \/ UpdateDeleteIngredients(p)
        \/ UpdateDeleteInstructions(p)
        \/ UpdateInsertIngredients(p)
        \/ UpdateInsertInstructions(p)
        \/ UpdateReturn(p)
        \/ StartDelete(p)
        \/ DeleteRecipe(p)
        \/ StartGet(p)
        \/ GetRecipe(p)
        \/ StartList(p)
        \/ ListRecipes(p)

Spec == Init /\ [][Next]_vars

-----------------------------------------------------------------------------
(* One request against a store whose calls can fail.                       *)
(* The handler positions at which the next thing done is a store call      *)
(* (.execute() in crud.py); "x_agent" makes none.                          *)
StoreCallPcs ==
    {"x_lookup", "c_recipe", "c_ingredients", "c_instructions", "c_get",
     "u_get", "u_update", "u_del_ing", "u_del_ins", "u_ins_ing", "u_ins_ins",
     "u_get2", "d_delete", "g_get", "l_list"}

(* str(e) of the APIError the client raises *)
StoreError == "store call failed"

(* main.py 140-156, 181-188, 208-215, 243-250, 276-285, 327-336: every     *)
(* handler's `except Exception` answers 500 with str(e) as original_error  *)
FailedResponse(r, original_error) ==
    CASE r.op = "extract" -> ExtractFailed(HttpUrlStr(r.video_url), original_error)
      [] r.op = "save"    -> SaveFailed(original_error)
      [] r.op = "update"  -> UpdateFailed(original_error)
      [] r.op = "delete"  ->
            ErrorResponse(500, "Failed to delete recipe", [original_error |-> original_error])
      [] r.op = "get"     ->
            ErrorResponse(500, "Failed to get recipe", [original_error |-> original_error])
      [] r.op = "list"    ->
            ErrorResponse(500, "Failed to get recipes", [original_error |-> original_error])

(* a variant in which the failed call is swallowed and issued again *)
StoreCallFails_retried(p) ==
    /\ req[p].pc \in StoreCallPcs
    /\ req[p].failed_at = None
    /\ req' = [req EXCEPT ![p].failed_at = req[p].pc]
    /\ UNCHANGED <<wf, storeVars, inferenceCalls>>

(* The store call at hand raises.  crud.py re-raises it (`except APIError:  *)
(* raise`, `except Exception: raise`), so the rest of the crud function is *)
(* skipped and the handler answers.  The rejected call changes nothing.    *)
StoreCallFails(p) ==
    /\ req[p].pc \in StoreCallPcs
    /\ req[p].failed_at = None
    /\ req' = [req EXCEPT ![p].pc = "done",
                          ![p].failed_at = req[p].pc,
                          ![p].resp = FailedResponse(req[p], StoreError)]
    /\ UNCHANGED <<wf, storeVars, inferenceCalls>>

FaultProcs == {1}

NextFault ==
    \E p \in FaultProcs :
        \/ StartExtract(p)
        \/ ExtractLookup(p)
        \/ ExtractAgent(p)
        \/ StartSave(p)
        \/ SaveInsertRecipe(p)
        \/ SaveInsertIngredients(p)
        \/ SaveInsertInstructions(p)
        \/ SaveReturn(p)
        \/ StartUpdate(p)
        \/ UpdateCheck(p)
        \/ UpdateFields(p)
        \/ UpdateDeleteIngredients(p)
        \/ UpdateDeleteInstructions(p)
        \/ UpdateInsertIngredients(p)
        \/ UpdateInsertInstructions(p)
        \/ UpdateReturn(p)
        \/ StartDelete(p)
        \/ DeleteRecipe(p)
        \/ StartGet(p)
        \/ GetRecipe(p)
        \/ StartList(p)
        \/ ListRecipes(p)
        \/ StoreCallFails(p)

SpecFault == Init /\ [][NextFault]_vars

-----------------------------------------------------------------------------
(* C7: for every video URL and every outcome of the inference collaborator *)
(* the workflow run terminates, and the state it returns has status failed *)
(* or success, never pending or running.                                   *)
C7_TerminatesFailedOrSuccess ==
    /\ <>(wf.node = "returned")
    /\ [](wf.node \in {"END", "returned"} => wf.state.extraction_status \in Terminal)

C7_Witness ==
    /\ wf.node = "returned"
    /\ wf.state.extraction_status = FAILED
    /\ wf.state.error_message = "Response did not match recipe schema"

(* C8: within one run the status only moves forward along                  *)
(* pending -> running -> {failed, success}: a step never changes a status  *)
(* of failed or success and never moves the status back.                   *)
StatusRank(s) == CASE s = PENDING -> 0 [] s = RUNNING -> 1 [] OTHER -> 2

C8_StatusMovesForward ==
    [][/\ StatusRank(wf'.state.extraction_status)
            >= StatusRank(wf.state.extraction_status)
       /\ (wf.state.extraction_status \in Terminal
            => wf'.state.extraction_status = wf.state.extraction_status)]_vars

C8_Witness ==
    /\ wf.executed = <<"video_analysis", "recipe_validation">>
    /\ wf.prev = RUNNING
    /\ wf.state.extraction_status = SUCCESS

(* C9: in every state of every run, for every max_retries in 0..5,         *)
(* retry_count <= max_retries and retry_count keeps its initial value 0.   *)
C9_RetryCountInert ==
    /\ wf.state.max_retries \in 0..MaxRetriesLimit
    /\ wf.state.retry_count <= wf.state.max_retries
    /\ wf.state.retry_count = 0

C9_Witness ==
    /\ wf.node = "returned"
    /\ wf.state.max_retries = 0
    /\ wf.state.extraction_status = FAILED

(* C10: whenever the validation step ran on a state holding a candidate    *)
(* recipe, the resulting status is success whether the recipe is valid or  *)
(* not; the validator's findings are recorded in is_valid_recipe and       *)
(* validation_errors and never turn the run into failed.                   *)
C10_ValidationNeverFails ==
    (ValidationRan /\ wf.state.extracted_recipe # NoRecipe)
    => /\ wf.state.extraction_status = SUCCESS
       /\ wf.state.is_valid_recipe =
             <<validate_recipe_structure(wf.state.extracted_recipe).is_valid>>
       /\ wf.state.validation_errors =
             <<validate_recipe_structure(wf.state.extracted_recipe).error>>
       /\ wf.state.error_message = None

C10_Witness ==
    /\ ValidationRan
    /\ wf.state.extracted_recipe = RecipeBlank
    /\ wf.state.is_valid_recipe = <<FALSE>>
    /\ Len(wf.state.validation_errors[1]) = 2
    /\ wf.state.extraction_status = SUCCESS

(* The reasons download_tiktok_video reports, and all the reasons a        *)
(* workflow step can report.                                               *)
DownloadErrors ==
    {"Video download timed out",
     "Error downloading video: Video download failed",
     "Error downloading video: Video file not found after download"}

StepFailures ==
    DownloadErrors \cup
    {"Gemini API error", "Empty response from Gemini",
     "Gemini returned invalid JSON", "Response did not match recipe schema"}

Finished == wf.node \in {"END", "returned"}

(* C11 (as amended): every workflow run calls the extraction tool exactly  *)
(* once and never re-attempts a failed extraction, whatever max_retries    *)
(* is; the inference service is called at most once, and not at all        *)
(* exactly when the video download failed.                                 *)
C11_OneAttemptNoRetry ==
    /\ wf.toolCalls <= 1
    /\ wf.geminiCalls <= 1
    /\ (wf.node \in {"recipe_validation", "END", "returned"}) =>
          /\ wf.toolCalls = 1
          /\ (wf.geminiCalls = 0) <=>
                (/\ wf.state.extraction_status = FAILED
                 /\ wf.state.error_message \in DownloadErrors)

C11_Witness ==
    /\ wf.node = "returned"
    /\ wf.state.max_retries = MaxRetriesLimit
    /\ wf.state.extraction_status = FAILED
    /\ wf.state.error_message = "Video download timed out"
    /\ wf.toolCalls = 1
    /\ wf.geminiCalls = 0

(* C11 (as stated): every workflow run invokes the inference collaborator  *)
(* exactly once, whatever its outcome and whatever max_retries is.         *)
C11_InferenceExactlyOnce ==
    Finished => wf.geminiCalls = 1

(* C12: no failure of a workflow step (download failure, collaborator      *)
(* error, empty response, invalid JSON, schema mismatch) leaves the        *)
(* workflow as an exception: for each of them recipe_agent returns a       *)
(* result with success = false derived from the terminal state.            *)
C12_FailuresBecomeResults ==
    /\ wf.node # "raised"
    /\ \A o \in Outcomes :
          transcribe_recipe(o).raised =>
             /\ ~WorkflowRaises(o)
             /\ recipe_agent(wf.input.video_url, wf.input.max_retries, o).success = FALSE
             /\ GraphInvoke(wf.input, o).extraction_status = FAILED
             /\ GraphInvoke(wf.input, o).error_message = transcribe_recipe(o).error
    /\ {transcribe_recipe(o).error : o \in {x \in Outcomes : transcribe_recipe(x).raised}}
          = StepFailures
    /\ (wf.node = "returned") =>
          /\ wf.result = AgentResult(wf.state)
          /\ wf.result.success = (wf.state.extraction_status = SUCCESS)
          /\ (wf.state.extraction_status = FAILED) =>
                /\ wf.result.success = FALSE
                /\ wf.result.recipe = NoRecipe
                /\ wf.state.error_message \in StepFailures

C12_Witness ==
    /\ wf.node = "returned"
    /\ wf.state.extraction_status = FAILED
    /\ wf.state.error_message = "Gemini API error"
    /\ wf.result # NoResult
    /\ wf.result.success = FALSE


-----------------------------------------------------------------------------
(* Properties of the request handlers (specification Spec).               *)
RowsWithUrl(u) == {i \in 1..Len(recipes) : recipes[i].source_url = u}

RanWorkflow(p) == req[p].agent # NoResult
WorkflowSucceeded(p) == RanWorkflow(p) /\ req[p].agent.success

(* task p takes a step of its handler *)
Steps(p) == req[p].pc # req'[p].pc /\ req[p].pc # "idle"

C2_ConcurrentExtractOneRow ==
    \A p, q \in Procs :
        (/\ p # q /\ Done(p) /\ Done(q)
         /\ req[p].op = "extract" /\ req[q].op = "extract"
         /\ HttpUrlStr(req[p].video_url) = HttpUrlStr(req[q].video_url)
         /\ q \in req[p].during
         /\ WorkflowSucceeded(p) /\ WorkflowSucceeded(q))
        => Cardinality(RowsWithUrl(HttpUrlStr(req[p].video_url))) = 1

(* C3: an extract request for a URL with no stored recipe whose workflow   *)
(* ends in success adds exactly one new recipe with that source_url and    *)
(* answers cached = false with database_id the id newly assigned to it.    *)
C3_MissSuccessPersists ==
    [][\A p \in Procs :
        (/\ req[p].pc = "x_agent" /\ req'[p].pc = "done"
         /\ req'[p].agent.success)
        => /\ Len(recipes') = Len(recipes) + 1
           /\ recipes'[Len(recipes')].source_url = HttpUrlStr(req[p].video_url)
           /\ \A i \in 1..Len(recipes) : recipes[i].id # recipes'[Len(recipes')].id
           /\ req'[p].resp.status_code = 200
           /\ req'[p].resp.metadata.cached = FALSE
           /\ req'[p].resp.metadata.database_id = recipes'[Len(recipes')].id]_vars

(* C4: for a URL never seen before whose workflow succeeds, two sequential *)
(* extract requests answer cached = false, then cached = true with the     *)
(* same database_id, and the inference collaborator runs once in total.    *)
C4_SecondExtractIsCached ==
    \A p, q \in Procs :
        (/\ Done(p) /\ Done(q) /\ p \in req[q].after
         /\ req[p].op = "extract" /\ req[q].op = "extract"
         /\ HttpUrlStr(req[p].video_url) = HttpUrlStr(req[q].video_url)
         /\ WorkflowSucceeded(p))
        => /\ req[p].resp.status_code = 200
           /\ req[p].resp.metadata.cached = FALSE
           /\ req[q].resp.status_code = 200
           /\ req[q].resp.metadata.cached = TRUE
           /\ req[q].resp.metadata.database_id = req[p].resp.metadata.database_id
           /\ inferenceCalls[HttpUrlStr(req[p].video_url)] = 1

(* C5: whenever the store holds a recipe whose source_url equals the       *)
(* requested URL, extract answers success = true, cached = true and the    *)
(* stored recipe's id, and runs neither the workflow nor the collaborator. *)
C5_HitShortCircuits ==
    [][\A p \in Procs :
        (/\ req[p].pc = "x_lookup" /\ Steps(p)
         /\ RowsWithUrl(HttpUrlStr(req[p].video_url)) # {})
        => /\ req'[p].pc = "done"
           /\ req'[p].resp.status_code = 200
           /\ req'[p].resp.success = TRUE
           /\ req'[p].resp.metadata.cached = TRUE
           /\ \E i \in RowsWithUrl(HttpUrlStr(req[p].video_url)) :
                 /\ req'[p].resp.metadata.database_id = recipes[i].id
                 /\ req'[p].resp.recipe.recipe_overview.title = recipes[i].title
           /\ ~RanWorkflow(p)'
           /\ inferenceCalls' = inferenceCalls]_vars

C5_Witness ==
    \E p \in Procs :
        /\ Done(p) /\ req[p].op = "extract" /\ req[p].video_url = UrlT
        /\ req[p].resp.status_code = 200
        /\ req[p].resp.metadata.cached = TRUE
        /\ req[p].resp.metadata.database_id = 1
        /\ ~RanWorkflow(p)
        /\ inferenceCalls[UrlT] = 0

(* C6: an extract request whose workflow ends in failed leaves the store   *)
(* as it was: no recipe, ingredient or instruction row is added.           *)
C6_FailedExtractPersistsNothing ==
    [][\A p \in Procs :
        (/\ req[p].op = "extract" /\ Steps(p)
         /\ ~ WorkflowSucceeded(p)')
        => UNCHANGED <<recipes, ingredients, instructions, nextRecipeId>>]_vars

C6_Witness ==
    \E p \in Procs :
        /\ Done(p) /\ req[p].op = "extract"
        /\ RanWorkflow(p) /\ ~req[p].agent.success
        /\ req[p].resp.status_code = 200 /\ req[p].resp.success = FALSE
        /\ RowsWithUrl(HttpUrlStr(req[p].video_url)) = {}
        /\ Len(recipes) > 0

(* a response carries a reason: as its error, or among its metadata errors *)
Carries(resp, reason) ==
    \/ "error" \in DOMAIN resp /\ resp.error = reason
    \/ /\ "metadata" \in DOMAIN resp
       /\ Len(resp.metadata.errors) = 1
       /\ resp.metadata.errors[1] = reason

(* C13: when the workflow of an extract request ends in failed, the        *)
(* response reports success = false and carries the failure reason the     *)
(* extraction step recorded.                                               *)
C13_FailedExtractCarriesReason ==
    \A p \in Procs :
        (/\ Done(p) /\ req[p].op = "extract"
         /\ RanWorkflow(p) /\ ~req[p].agent.success)
        => /\ req[p].resp.success = FALSE
           /\ \E o \in ApiOutcomes :
                 LET video_url == HttpUrlStr(req[p].video_url)
                     final == GraphInvoke(AgentState(video_url, req[p].max_retries), o) IN
                 /\ AgentResult(final) = req[p].agent
                 /\ final.extraction_status = FAILED
                 /\ Carries(req[p].resp, final.error_message)

(* no update or delete request names this recipe id *)
NoMutation(id) ==
    \A q \in Procs : req[q].op \in {"update", "delete"} => req[q].recipe_id # id

(* C14: once a recipe with source_url U is stored, every later extract(U)  *)
(* returns that recipe with cached = true, as long as the recipe is        *)
(* neither deleted nor updated; no number of requests expires the entry.   *)
C14_StoredEntryStaysCached ==
    \A p \in Procs :
        (/\ Done(p) /\ req[p].op = "extract"
         /\ RowsWithUrl(HttpUrlStr(req[p].video_url)) # {})
        => /\ req[p].resp.status_code = 200
           /\ req[p].resp.success = TRUE
           /\ req[p].resp.metadata.cached = TRUE
           /\ ~RanWorkflow(p)
           /\ \E i \in RowsWithUrl(HttpUrlStr(req[p].video_url)) :
                 /\ req[p].resp.metadata.database_id = recipes[i].id
                 /\ NoMutation(recipes[i].id)
                       => req[p].resp.recipe = recipe_to_schema(Embed(recipes[i]))

C14_Witness ==
    /\ Done(1) /\ Done(2) /\ 1 \in req[2].after
    /\ req[1].op = "extract" /\ req[2].op = "extract"
    /\ req[1].video_url = UrlT /\ req[2].video_url = UrlT
    /\ req[1].resp.metadata.cached = TRUE /\ req[2].resp.metadata.cached = TRUE
    /\ req[2].resp.metadata.database_id = 1
    /\ req[2].resp.recipe = req[1].resp.recipe
    /\ req[2].resp.recipe.recipe_overview.title = "Rice"

(* The strings a lookup is asked for *)
LookupUrls == {UrlA, UrlAUpper, UrlASlash, UrlAQuery, UrlAHost, UrlT}

(* C15: lookup by source URL returns a recipe only when its stored         *)
(* source_url is exactly the requested string, and returns absent when no  *)
(* stored source_url equals it; a recipe with a null source_url or one     *)
(* that differs (trailing slash, query parameter, host) is never returned. *)
C15_LookupIsExactMatch ==
    \A u \in LookupUrls :
        LET found == get_recipe_by_source_url(u) IN
        /\ (found = NoRow) <=> (RowsWithUrl(u) = {})
        /\ (found # NoRow) =>
              /\ found.source_url = u
              /\ found.source_url # NoUrl
              /\ \E i \in RowsWithUrl(u) :
                    /\ found = Embed(recipes[i])
                    /\ \A j \in RowsWithUrl(u) : i <= j

C15_Witness ==
    /\ \E p \in Procs :
          /\ Done(p) /\ req[p].op = "extract" /\ req[p].video_url = UrlA
          /\ RanWorkflow(p)
          /\ req[p].resp.metadata.cached = FALSE
    /\ RowsWithUrl(UrlASlash) # {} /\ RowsWithUrl(UrlAQuery) # {}
    /\ get_recipe_by_source_url(UrlA) = NoRow
    /\ get_recipe_by_source_url(UrlAHost) = NoRow
    /\ get_recipe_by_source_url(UrlASlash).id = 1
    /\ get_recipe_by_source_url(UrlAQuery).id = 2

(* a retrieved recipe reproduces the ingredients and instructions of the   *)
(* recipe that was handed to the store, in their order                     *)
SameOrder(got, recipe_data) ==
    /\ got.instructions = recipe_data.instructions
    /\ Len(got.ingredients) = Len(recipe_data.ingredients)
    /\ \A i \in 1..Len(recipe_data.ingredients) :
          /\ got.ingredients[i].item = recipe_data.ingredients[i].item
          /\ got.ingredients[i].unit = recipe_data.ingredients[i].unit

(* the stored instruction rows of a recipe, in table order, are numbered   *)
(* 1, 2, 3, ...                                                            *)
StepsAscendFromOne(recipe_id) ==
    LET rows == SelectSeq(instructions, LAMBDA r : r.recipe_id = recipe_id) IN
    \A i \in 1..Len(rows) : rows[i].step_number = i

C17_GetAfterDeleteIs404 ==
    \A p \in Procs :
        (/\ Done(p) /\ req[p].op = "delete" /\ req[p].resp.status_code = 200)
        => /\ ~RecipeExists(req[p].recipe_id)
           /\ get_recipe_by_id(req[p].recipe_id) = NoRow
           /\ \A q \in Procs :
                 (/\ Done(q) /\ req[q].op = "get" /\ p \in req[q].after
                  /\ req[q].recipe_id = req[p].recipe_id)
                 => req[q].resp = NotFound(req[p].recipe_id)

C17_Witness ==
    /\ Done(1) /\ req[1].op = "delete" /\ req[1].recipe_id = 1
    /\ req[1].resp.status_code = 200
    /\ Done(2) /\ req[2].op = "get" /\ req[2].recipe_id = 1
    /\ 1 \in req[2].after
    /\ req[2].resp.status_code = 404
    /\ req[2].resp.error = "Recipe not found"

(* C18: a get, update or delete request for a recipe id that is not in the *)
(* store returns a 404 response with error "Recipe not found" and details  *)
(* naming the recipe_id (not a 500), and leaves the store unchanged.       *)
C18_MissingIdIs404 ==
    [][\A p \in Procs :
        (/\ req[p].pc \in {"g_get", "u_get", "d_delete"} /\ Steps(p)
         /\ ~RecipeExists(req[p].recipe_id))
        => /\ req'[p].pc = "done"
           /\ req'[p].resp.status_code = 404
           /\ req'[p].resp.error = "Recipe not found"
           /\ req'[p].resp.details = [recipe_id |-> req[p].recipe_id]
           /\ UNCHANGED <<recipes, ingredients, instructions, nextRecipeId>>]_vars

C18_Witness ==
    /\ Done(1) /\ req[1].op = "update" /\ req[1].recipe_id = MaxRecipeId
    /\ req[1].resp = NotFound(MaxRecipeId)
    /\ Done(2) /\ req[2].op = "delete" /\ req[2].recipe_id = MaxRecipeId
    /\ req[2].resp = NotFound(MaxRecipeId)
    /\ HoldsStore(StoreOf(<<<<RecipePasta, UrlA>>>>))

(* the ingredient and instruction rows that reference a recipe id *)
ChildRows(recipe_id) ==
    {i \in 1..Len(ingredients) : ingredients[i].recipe_id = recipe_id}
    \cup {Len(ingredients) + i : i \in
            {j \in 1..Len(instructions) : instructions[j].recipe_id = recipe_id}}

NoOtherMutation(p, id) ==
    \A q \in Procs \ {p} :
        /\ req[q].op \in {"update", "delete"} => req[q].recipe_id # id
        /\ (req[q].op = "save" /\ req[q].new_id = id) => q \in req[p].after

(* C20: after a successful update of a recipe id with new recipe data the  *)
(* response carries the same id, and retrieving the id returns the new     *)
(* title and exactly the new ingredients and instructions: none of the     *)
(* rows stored before the update remain.                                   *)
C20_UpdateReplacesRecipe ==
    \A p \in Procs :
        (/\ Done(p) /\ req[p].op = "update"
         /\ req[p].resp # NotFound(req[p].recipe_id)
         /\ NoOtherMutation(p, req[p].recipe_id))
        => /\ req[p].resp.status_code = 200
           /\ req[p].resp.recipe_id = req[p].recipe_id
           /\ LET got == recipe_to_schema(get_recipe_by_id(req[p].recipe_id)) IN
              /\ got.recipe_overview.title = req[p].recipe.recipe_overview.title
              /\ SameOrder(got, req[p].recipe)
              /\ Cardinality(ChildRows(req[p].recipe_id))
                    = Len(req[p].recipe.ingredients) + Len(req[p].recipe.instructions)

(* the number of recipes a page of the list holds *)
PageSize(n, s, l) ==
    LET rest == IF n - s > 0 THEN n - s ELSE 0 IN
    IF l < rest THEN l ELSE rest

(* C21: for a store holding N recipes and a list request with skip = s >= 0 *)
(* and limit = l >= 1, the response holds exactly min(l, max(0, N - s))    *)
(* recipes, taken from position s of the recipes ordered by created_at     *)
(* descending, and its count field equals the number of recipes returned.  *)
C21_ListPagination ==
    [][\A p \in Procs :
        (req[p].pc = "l_list" /\ Steps(p) /\ req[p].skip >= 0 /\ req[p].limit >= 1)
        => LET n == Len(recipes)
               out == req'[p].resp.recipes IN
           /\ req'[p].pc = "done"
           /\ req'[p].resp.status_code = 200
           /\ req'[p].resp.success = TRUE
           /\ Len(out) = PageSize(n, req[p].skip, req[p].limit)
           /\ req'[p].resp.count = Len(out)
           /\ \A i \in 1..Len(out) :
                 out[i] = recipe_to_schema(Embed(recipes[n - req[p].skip - i + 1]))]_vars

C21_Witness ==
    /\ Len(recipes) = 2
    /\ Done(1) /\ req[1].op = "list" /\ req[1].skip = 2 /\ req[1].limit = 1
    /\ req[1].resp.count = 0 /\ req[1].resp.recipes = <<>>
    /\ Done(2) /\ req[2].op = "list" /\ req[2].skip = 1 /\ req[2].limit = 2
    /\ req[2].resp.count = 1
    /\ req[2].resp.recipes[1].id = 1
    /\ req[2].resp.recipes[1].recipe_overview.title = recipes[1].title

(* a request ended on a failure path: its answer is not a 200, or it is    *)
(* an extract whose workflow ended in failed                               *)
FailurePath(p) ==
    /\ Done(p)
    /\ \/ req[p].resp.status_code # 200
       \/ req[p].op = "extract" /\ RanWorkflow(p) /\ ~req[p].agent.success

(* the error envelope: an error string and a details map with original_error *)
IsEnvelope(resp) ==
    /\ "error" \in DOMAIN resp
    /\ "details" \in DOMAIN resp
    /\ "original_error" \in DOMAIN resp.details

(* C22: on any failure path of any endpoint (extract, save, list, get,     *)
(* update, delete) the response is the error envelope: an error string     *)
(* plus a details map that contains original_error; for extract the        *)
(* details also contain the elapsed processing time and the video URL.     *)
C22_FailuresAnswerEnvelope ==
    \A p \in Procs :
        FailurePath(p)
        => /\ IsEnvelope(req[p].resp)
           /\ req[p].op = "extract" =>
                 /\ "processing_time" \in DOMAIN req[p].resp.details
                 /\ "video_url" \in DOMAIN req[p].resp.details
                 /\ req[p].resp.details.video_url = HttpUrlStr(req[p].video_url)

(* C23: after a recipe is saved through POST /recipes with source_url U, a *)
(* following extract request for U returns success = true with cached =    *)
(* true and a non-null database_id, without running the workflow.          *)
C23_SavedUrlIsCached ==
    \A p, q \in Procs :
        (/\ Done(p) /\ req[p].op = "save" /\ req[p].resp.status_code = 200
         /\ req[p].source_url # NoUrl
         /\ Done(q) /\ req[q].op = "extract" /\ p \in req[q].after
         /\ HttpUrlStr(req[q].video_url) = req[p].source_url)
        => /\ req[q].resp.status_code = 200
           /\ req[q].resp.success = TRUE
           /\ req[q].resp.metadata.cached = TRUE
           /\ req[q].resp.metadata.database_id # NoId
           /\ ~RanWorkflow(q)

(* C24: for every valid uncached video URL, TikTok URLs of the form        *)
(* https://www.tiktok.com/@user/video/<id> included, whose workflow ends   *)
(* in success, the extract request answers with a normal response carrying *)
(* success = true, the extracted recipe, metadata.steps and cached =       *)
(* false, not with an error response.                                      *)
C24_UncachedSuccessAnswers200 ==
    \A p \in Procs :
        (Done(p) /\ req[p].op = "extract" /\ WorkflowSucceeded(p))
        => /\ req[p].resp.status_code = 200
           /\ "error" \notin DOMAIN req[p].resp
           /\ req[p].resp.success = TRUE
           /\ req[p].resp.recipe # NoRecipe
           /\ req[p].resp.recipe.recipe_overview.title
                 = req[p].agent.recipe.recipe_overview.title
           /\ req[p].resp.recipe.ingredients = req[p].agent.recipe.ingredients
           /\ req[p].resp.recipe.instructions = req[p].agent.recipe.instructions
           /\ "steps" \in DOMAIN req[p].resp.metadata
           /\ req[p].resp.metadata.cached = FALSE

(* C25: in every workflow run the extraction step executes first and       *)
(* exactly once; the validation step executes (once, after it) if and only *)
(* if the extraction step left status running; after the validation step,  *)
(* or after an extraction step that left status failed, no further step    *)
(* executes.                                                               *)
C25_StepOrder ==
    /\ [](/\ wf.node \in {"START", "video_analysis"} => wf.executed = <<>>
          /\ wf.node = "recipe_validation" =>
                /\ wf.executed = <<"video_analysis">>
                /\ wf.state.extraction_status = RUNNING
          /\ Finished =>
                \/ /\ wf.executed = <<"video_analysis">>
                   /\ wf.state.extraction_status = FAILED
                \/ /\ wf.executed = <<"video_analysis", "recipe_validation">>
                   /\ wf.prev = RUNNING)
    /\ [][Finished => (Finished' /\ wf'.executed = wf.executed
                                 /\ wf'.state = wf.state)]_vars

C25_Witness ==
    /\ wf.node = "returned"
    /\ wf.executed = <<"video_analysis", "recipe_validation">>
    /\ wf.prev = RUNNING
    /\ wf.state.is_valid_recipe = <<TRUE>>
    /\ wf.state.extracted_recipe = RecipePasta

(* C26: the extraction step maps the collaborator's outcome onto state as  *)
(* follows: on success the new state has status running and                *)
(* extracted_recipe equal to the candidate; on any failure the new state   *)
(* has status failed, error_message equal to the reported reason, and      *)
(* extracted_recipe absent.                                                *)
C26_ExtractionStepMapping ==
    /\ \A o \in Outcomes :
          LET reported == transcribe_recipe(o)
              new == url_extract_node(wf.input, o) IN
          IF reported.raised
          THEN /\ new.extraction_status = FAILED
               /\ new.error_message = reported.error
               /\ new.error_message \in StepFailures
               /\ new.extracted_recipe = NoRecipe
          ELSE /\ new.extraction_status = RUNNING
               /\ new.extracted_recipe = o.data
               /\ new.extracted_recipe # NoRecipe
    /\ wf.node = "recipe_validation" =>
          /\ wf.state.extraction_status = RUNNING
          /\ wf.state.extracted_recipe \in GoodPayloads
          /\ wf.state.error_message = None
    /\ (Finished /\ ~ValidationRan) =>
          /\ wf.state.extraction_status = FAILED
          /\ wf.state.error_message \in StepFailures
          /\ wf.state.extracted_recipe = NoRecipe

C26_Witness ==
    /\ wf.node = "END"
    /\ wf.executed = <<"video_analysis">>
    /\ wf.state.extraction_status = FAILED
    /\ wf.state.error_message = "Gemini returned invalid JSON"
    /\ wf.state.extracted_recipe = NoRecipe

(* the extract requests for url that have called the inference service *)
InferenceCallers(url) ==
    {p \in Procs : /\ Done(p) /\ req[p].op = "extract"
                   /\ HttpUrlStr(req[p].video_url) = url
                   /\ req[p].outcome # NoOutcome
                   /\ transcribe_recipe(req[p].outcome).geminiCalled}

(* C27: the outcome of an extract request does not depend on max_retries:  *)
(* for the same URL, the same store content and the same collaborator      *)
(* outcome, any two values of max_retries in 0..5 give the same success    *)
(* flag, the same recipe, the same number of inference calls and the same  *)
(* store afterwards.                                                       *)
C27_MaxRetriesHasNoEffect ==
    /\ [](/\ \A p, q \in Procs :
                (/\ Done(p) /\ Done(q)
                 /\ req[p].op = "extract" /\ req[q].op = "extract"
                 /\ HttpUrlStr(req[p].video_url) = HttpUrlStr(req[q].video_url)
                 /\ req[p].outcome = req[q].outcome)
                => IF req[p].outcome # NoOutcome
                   THEN /\ req[p].resp = req[q].resp
                        /\ req[p].agent = req[q].agent
                   ELSE req[p].resp.metadata = req[q].resp.metadata
          /\ \A u \in VideoUrls :
                inferenceCalls[u] = Cardinality(InferenceCallers(u))
          /\ \A p \in Procs :
                (Done(p) /\ req[p].op = "extract" /\ req[p].outcome # NoOutcome)
                => \A m \in 0..MaxRetriesLimit :
                      LET u == HttpUrlStr(req[p].video_url)
                          r == recipe_agent(u, m, req[p].outcome) IN
                      /\ req[p].agent = r
                      /\ req[p].resp = MissResponse(r, u)
                      /\ ExtractMissStore(CurrentStore, r, u) = CurrentStore)
    /\ [][\A p \in Procs :
            (req[p].op = "extract" /\ Steps(p))
            => UNCHANGED <<recipes, ingredients, instructions, nextRecipeId>>]_vars

C27_Witness ==
    /\ Done(1) /\ Done(2)
    /\ req[1].op = "extract" /\ req[2].op = "extract"
    /\ req[1].video_url = UrlA /\ req[2].video_url = UrlA
    /\ req[1].max_retries = 0 /\ req[2].max_retries = MaxRetriesLimit
    /\ req[1].outcome = Outcome("ok", "ok", "json", RecipePasta)
    /\ req[2].outcome = req[1].outcome
    /\ req[1].resp.success = TRUE /\ req[2].resp = req[1].resp
    /\ inferenceCalls[UrlA] = 2

(* C28: at the end of a workflow run number_of_steps equals the number of  *)
(* workflow steps that executed in that run (1 when extraction failed, 2   *)
(* when validation ran), and this value is what the extract response       *)
(* reports as metadata.steps on a cache miss.                              *)
C28_StepsAreCounted ==
    /\ Finished =>
          /\ wf.state.number_of_steps = Len(wf.executed)
          /\ wf.state.number_of_steps = IF ValidationRan THEN 2 ELSE 1
    /\ wf.node = "returned" =>
          /\ wf.result.metadata.steps = Len(wf.executed)
          /\ LET resp == MissResponse(wf.result, wf.input.video_url) IN
             resp.status_code = 200 => resp.metadata.steps = Len(wf.executed)

(* the fields no workflow step may change *)
SameRequest(a, b) ==
    /\ a.video_url = b.video_url
    /\ a.retry_count = b.retry_count
    /\ a.max_retries = b.max_retries

(* C29: each workflow step returns a fresh state and leaves the state it   *)
(* was given unchanged; across both steps the fields video_url,            *)
(* retry_count and max_retries of the returned state equal those of the    *)
(* input state, and the validation step leaves extracted_recipe unchanged. *)
C29_StepsCopyState ==
    /\ wf.given = wf.handed
    /\ SameRequest(wf.state, wf.handed)
    /\ SameRequest(wf.state, wf.input)
    /\ Len(wf.executed) >= 1 => wf.state # wf.handed
    /\ Len(wf.executed) = 1 => wf.handed = wf.input
    /\ ValidationRan =>
          /\ wf.state.extracted_recipe = wf.handed.extracted_recipe
          /\ wf.handed.extraction_status = RUNNING

C29_Witness ==
    /\ wf.node = "returned"
    /\ wf.executed = <<"video_analysis", "recipe_validation">>
    /\ wf.handed.extraction_status = RUNNING
    /\ wf.given = wf.handed
    /\ wf.state.extraction_status = SUCCESS
    /\ wf.state.extracted_recipe = RecipeRice
    /\ wf.handed.extracted_recipe = RecipeRice
    /\ wf.state.video_url = UrlT
    /\ wf.state.max_retries = MaxRetriesLimit

(* the stored ingredient rows of a recipe hold, per ingredient of          *)
(* recipe_data and in its order, the parsed amount (0 when the text is not *)
(* a number) and the amount text as the head of original_text              *)
AmountsStored(recipe_id, recipe_data) ==
    LET rows == SelectSeq(ingredients, LAMBDA r : r.recipe_id = recipe_id) IN
    /\ Len(rows) = Len(recipe_data.ingredients)
    /\ \A i \in 1..Len(rows) :
          LET text == recipe_data.ingredients[i].amount IN
          /\ rows[i].name = recipe_data.ingredients[i].item
          /\ rows[i].original_text[1] = text
          /\ IF text # <<>> /\ \A c \in 1..Len(text) : IsDigit(text[c])
             THEN rows[i].amount = DigitsValue(text)
             ELSE rows[i].amount = 0

(* C30: in create_recipe and update_recipe an ingredient whose amount       *)
(* string does not parse as a number is stored with amount 0.0 and does    *)
(* not make the operation fail; an amount that parses is stored as that    *)
(* number; in both cases the original amount text is kept in the           *)
(* ingredient's original_text.                                             *)
C30_AmountBestEffort ==
    \A p \in Procs :
        /\ (/\ Done(p) /\ req[p].op = "save"
            /\ \A q \in Procs : req[q].op = "delete" => req[q].recipe_id # req[p].new_id)
           => req[p].resp.status_code = 200
        /\ (/\ Done(p) /\ req[p].op = "save" /\ NoMutation(req[p].new_id))
           => AmountsStored(req[p].new_id, req[p].recipe)
        /\ (/\ req[p].op = "update" /\ NoOtherMutation(p, req[p].recipe_id)
            /\ \/ req[p].pc = "u_get2"
               \/ Done(p) /\ req[p].resp # NotFound(req[p].recipe_id))
           => /\ AmountsStored(req[p].recipe_id, req[p].recipe)
              /\ Done(p) => req[p].resp.details.original_error # "foreign key violation"

C30_Witness ==
    /\ Done(1) /\ req[1].op = "save" /\ req[1].recipe = RecipePasta
    /\ req[1].resp.status_code = 200 /\ req[1].new_id = 2
    /\ Done(2) /\ req[2].op = "update" /\ req[2].recipe_id = 1
    /\ req[2].recipe = RecipeRice /\ req[2].resp.status_code = 500
    /\ Len(ingredients) = 4
    /\ \E i, j, k \in 1..4 :
          /\ ingredients[i].recipe_id = 2 /\ ingredients[i].amount = 200
          /\ ingredients[j].recipe_id = 2 /\ ingredients[j].amount = 0
          /\ ingredients[j].original_text[1] = <<"a", " ", "p", "i", "n", "c", "h">>
          /\ ingredients[k].recipe_id = 1 /\ ingredients[k].amount = 0
          /\ ingredients[k].original_text[1] = <<"1", "/", "2">>

(* the stored recipe with this id is exactly what an update with           *)
(* recipe_data writes: its overview, its ingredient rows, its instruction  *)
(* rows, and nothing else                                                  *)
StoredIs(recipe_id, recipe_data) ==
    LET row == get_recipe_by_id(recipe_id) IN
    /\ row # NoRow
    /\ row.title = recipe_data.recipe_overview.title
    /\ row.base_servings = recipe_data.recipe_overview.servings
    /\ row.difficulty = recipe_data.recipe_overview.difficulty
    /\ row.cuisine_type = recipe_data.recipe_overview.cuisine_type
    /\ row.ingredients = ingredients_batch(recipe_id, recipe_data)
    /\ row.instructions = instructions_batch(recipe_id, recipe_data)

FullyDeleted(recipe_id) ==
    ~RecipeExists(recipe_id) /\ ChildRows(recipe_id) = {}

(* C32: mutations of one stored recipe are serialized: when two update     *)
(* requests (or an update and a delete) for the same recipe id run         *)
(* concurrently, the final stored recipe has the overview, ingredients and *)
(* instructions of exactly one of the requests (or is fully deleted),      *)
(* never a mixture of rows from both and never ingredient or instruction   *)
(* rows left for a deleted recipe.                                         *)
C32_MutationsSerialized ==
    \A p, q \in Procs :
        (/\ p # q /\ Done(p) /\ Done(q) /\ q \in req[p].during
         /\ req[p].op = "update" /\ req[q].op \in {"update", "delete"}
         /\ req[p].recipe_id = req[q].recipe_id
         /\ req[p].existing_recipe # NoRow)
        => \/ StoredIs(req[p].recipe_id, req[p].recipe)
           \/ req[q].op = "update" /\ req[q].existing_recipe # NoRow
                 /\ StoredIs(req[q].recipe_id, req[q].recipe)
           \/ req[q].op = "delete" /\ FullyDeleted(req[p].recipe_id)


StoreFailed(p) == req[p].failed_at # None

(* C31: when a store call fails during a create, list, get, update, delete *)
(* or cache-lookup operation, the operation issues no further store call   *)
(* (the failed call is not retried and later writes of the operation are   *)
(* not attempted) and the failure reaches the caller as a 500 response     *)
(* whose details carry the original error text.                            *)
C31_StoreFailureStopsAndSurfaces ==
    /\ [](\A p \in Procs :
            StoreFailed(p)
            => /\ Done(p)
               /\ req[p].resp.status_code = 500
               /\ IsEnvelope(req[p].resp)
               /\ req[p].resp.details.original_error = StoreError)
    /\ [][\A p \in Procs :
            /\ (~StoreFailed(p) /\ StoreFailed(p)')
                  => UNCHANGED <<recipes, ingredients, instructions, nextRecipeId>>
            /\ StoreFailed(p)
                  => /\ req'[p] = req[p]
                     /\ UNCHANGED <<recipes, ingredients, instructions, nextRecipeId>>]_vars

C31_Witness ==
    /\ Done(1) /\ req[1].op = "update" /\ req[1].failed_at = "u_ins_ing"
    /\ req[1].resp = UpdateFailed(StoreError)
    /\ req[1].existing_recipe # NoRow
    /\ ChildRows(req[1].recipe_id) = {}

(* C33: update_recipe is all-or-nothing: if any store call inside it fails *)
(* (the overview update, the deletion of old ingredients or instructions,  *)
(* or the insertion of new ones), the stored recipe afterwards has the     *)
(* same overview, ingredients and instructions as before the update.       *)
C33_UpdateAllOrNothing ==
    \A p \in Procs :
        (/\ Done(p) /\ req[p].op = "update" /\ StoreFailed(p)
         /\ req[p].failed_at \in {"u_update", "u_del_ing", "u_del_ins",
                                  "u_ins_ing", "u_ins_ins"})
        => get_recipe_by_id(req[p].recipe_id) = req[p].existing_recipe

(* C34: create_recipe is all-or-nothing: if inserting the ingredients or   *)
(* the instructions fails after the recipe row was inserted, no recipe row *)
(* from that call remains in the store, so every stored recipe has all the *)
(* ingredients and instructions it was created with.                       *)
C34_CreateAllOrNothing ==
    \A p \in Procs :
        (Done(p) /\ req[p].op = "save")
        => /\ req[p].failed_at \in {"c_ingredients", "c_instructions"}
                 => ~RecipeExists(req[p].new_id)
           /\ RecipeExists(req[p].new_id)
                 => /\ get_recipe_by_id(req[p].new_id).ingredients
                          = ingredients_batch(req[p].new_id, req[p].recipe)
                    /\ get_recipe_by_id(req[p].new_id).instructions
                          = instructions_batch(req[p].new_id, req[p].recipe)

-----------------------------------------------------------------------------
(* Updates, deletes and the cache lookup (specification Spec).             *)

(* the id and the source_url of every stored recipe, in table order *)
Keys == [i \in 1..Len(recipes) |-> <<recipes[i].id, recipes[i].source_url>>]

(* update p, given no source_url, found a recipe stored under the URL that *)
(* extract q, arriving after p had answered, asks for                      *)
UpdatedThenExtracted(p, q) ==
    /\ Done(p) /\ req[p].op = "update" /\ req[p].source_url = NoUrl
    /\ req[p].existing_recipe # NoRow
    /\ Done(q) /\ req[q].op = "extract" /\ p \in req[q].after
    /\ req[p].existing_recipe.source_url = HttpUrlStr(req[q].video_url)

(* C37: an update request that gives no source_url leaves the recipe's id  *)
(* and stored source_url unchanged, so a recipe that was a cache entry for *)
(* URL U before the update is still returned by extract(U) afterwards, now *)
(* with the updated content.                                               *)
C37_UpdateKeepsCacheEntry ==
    /\ [][\A p \in Procs :
            (req[p].op = "update" /\ req[p].source_url = NoUrl /\ Steps(p))
            => Keys' = Keys]_vars
    /\ [](\A p, q \in Procs :
            UpdatedThenExtracted(p, q)
            => /\ req[q].resp.status_code = 200
               /\ req[q].resp.metadata.cached = TRUE
               /\ ~RanWorkflow(q)
               /\ req[q].resp.metadata.database_id = req[p].recipe_id
               /\ StoredIs(req[p].recipe_id, req[p].recipe)
               /\ req[q].resp.recipe
                     = recipe_to_schema(get_recipe_by_id(req[p].recipe_id)))

C37_Witness ==
    /\ UpdatedThenExtracted(1, 2)
    /\ req[1].existing_recipe.title = "Pasta"
    /\ req[1].recipe = RecipeRice
    /\ req[2].video_url = UrlAUpper
    /\ req[2].resp.metadata.cached = TRUE
    /\ req[2].resp.metadata.database_id = 1
    /\ req[2].resp.recipe.recipe_overview.title = "Rice"
    /\ Len(req[2].resp.recipe.instructions) = Len(RecipeRice.instructions)

(* delete p removed a recipe stored under the URL that extract q, arriving *)
(* after p had answered, asks for                                          *)
DeletedThenExtracted(p, q) ==
    /\ Done(p) /\ req[p].op = "delete" /\ Len(req[p].deleted) > 0
    /\ Done(q) /\ req[q].op = "extract" /\ p \in req[q].after
    /\ req[p].deleted[1].source_url = HttpUrlStr(req[q].video_url)

(* C38: after the only stored recipe with source_url U is deleted, the     *)
(* next extract(U) is a cache miss: it invokes the workflow (and the       *)
(* inference collaborator) again and returns metadata.cached = false.      *)
C38_DeletedUrlIsMissAgain ==
    \A p, q \in Procs :
        DeletedThenExtracted(p, q)
        => /\ RanWorkflow(q)
           /\ q \in InferenceCallers(HttpUrlStr(req[q].video_url))
           /\ req[q].resp.status_code = 200
           /\ req[q].resp.metadata.cached = FALSE

-----------------------------------------------------------------------------
(* Terminal states of a workflow run (specification SpecWF).               *)

(* C35: in every terminal state of a workflow run, status is success       *)
(* exactly when extracted_recipe is present, and status is failed exactly  *)
(* when error_message is present; hence recipe_agent returns a non-null    *)
(* recipe if and only if it returns success = true.                        *)
C35_TerminalStateConsistent ==
    Finished
    => /\ wf.state.extraction_status = SUCCESS
            <=> wf.state.extracted_recipe # NoRecipe
       /\ wf.state.extraction_status = FAILED
            <=> wf.state.error_message # None
       /\ wf.node = "returned"
            => (wf.result.recipe # NoRecipe <=> wf.result.success)

C35_Witness ==
    /\ wf.node = "returned"
    /\ wf.result.success
    /\ wf.result.recipe = RecipePasta
    /\ wf.state.extraction_status = SUCCESS
    /\ wf.state.error_message = None

(* C36: in no run does the validation step take its "No recipe data to     *)
(* validate" branch: whenever the validation step executes,                *)
(* extracted_recipe is present, so a failed terminal state is produced     *)
(* only by the extraction step.                                            *)
C36_ValidationAlwaysHasRecipe ==
    /\ wf.node = "recipe_validation" => wf.state.extracted_recipe # NoRecipe
    /\ ValidationRan
         => /\ wf.handed.extracted_recipe # NoRecipe
            /\ wf.state.error_message # "No recipe data to validate"
            /\ wf.state.extraction_status = SUCCESS
    /\ (Finished /\ wf.state.extraction_status = FAILED)
         => /\ wf.executed = <<"video_analysis">>
            /\ wf.state.error_message \in StepFailures

C36_Witness ==
    /\ wf.node = "END"
    /\ wf.executed = <<"video_analysis", "recipe_validation">>
    /\ wf.handed.extraction_status = RUNNING
    /\ wf.handed.extracted_recipe = RecipePasta
    /\ wf.state.extraction_status = SUCCESS

=============================================================================
